---- MODULE Spec2Model ----
(***************************************************************************)
(* Model of github.com/QFO6/gtf (gtf.go): the helper catalog GtfFuncMap,   *)
(* the registration operations Inject, ForceInject and InjectWithPrefix,   *)
(* and the helpers the checked properties are about.                       *)
(*                                                                         *)
(* Two specifications share the variables:                                 *)
(*   Spec        the registration operations acting on a caller's table    *)
(*               or on the exported catalog map itself;                    *)
(*   HelperSpec  one call of one helper on an argument drawn from bounded  *)
(*               sets, on a 32-bit or a 64-bit build.                      *)
(***************************************************************************)
EXTENDS Integers, Sequences, FiniteSets, TLC

VARIABLES
    GtfFuncMap,   \* the catalog map; GtfTextFuncMap is the same map value
    funcs,        \* a caller-owned table
    pc,           \* "idle" | "range" (inside a for-range loop) | "returned"
    op,           \* the registration operation running or last returned
    target,       \* which map the call was handed: "funcs" | "GtfFuncMap"
    prefix,       \* the prefix argument of InjectWithPrefix ("" otherwise)
    todo,         \* entries present at loop start and not yet produced
    created,      \* entries created in the ranged map during the loop
    cat0,         \* the catalog when the call started
    funcs0,       \* the target table when the call started
    calls,        \* number of registration calls started
    uintSize,     \* bits of int and uint on the build: 32 or 64
    helper,       \* name of the helper that was called ("none" before)
    args,         \* its arguments
    argNum,       \* the number an integer argument holds (sign, digits)
    ret           \* its outcome: [panicked, val]

vars == <<GtfFuncMap, funcs, pc, op, target, prefix, todo, created, cat0,
          funcs0, calls, uintSize, helper, args, argNum, ret>>

regVars == <<GtfFuncMap, funcs, pc, op, target, prefix, todo, created, cat0,
             funcs0, calls>>

helperVars == <<uintSize, helper, args, argNum, ret>>

(***************************************************************************)
(* Bounds of the model.                                                    *)
(***************************************************************************)
\* Registration calls per behaviour.
MaxCalls == 2
\* Longest name the loop of InjectWithPrefix may still produce when it
\* ranges over a map it is itself growing.
MaxNameLen == 7
\* Largest catalog a registration call is still started on.
MaxCatalog == 5

(***************************************************************************)
(* Maps: a Go map[string]interface{} is a function from a finite set of    *)
(* names to implementations.                                               *)
(***************************************************************************)
Put(m, k, v) == [n \in (DOMAIN m) \cup {k} |-> IF n = k THEN v ELSE m[n]]

\* The literal of GtfTextFuncMap; three of its entries stand for the rest.
\* "title" and "gettitle" are both names of the catalog, one a suffix of the
\* other.  An implementation is named after the entry that defines it.
GtfTextFuncMap ==
    [k \in {"title", "gettitle", "lower"} |-> "gtf." \o k]

\* Tables a caller may own before a registration call.
UserNames == {"title", "xlower", "mine"}

UserTables ==
    UNION {[S -> {"user.f"}] : S \in SUBSET UserNames}

Prefixes == {"", "x", "get"}

\* The map a call works on.
TargetMap == IF target = "GtfFuncMap" THEN GtfFuncMap ELSE funcs

(***************************************************************************)
(* Loop bodies of the three registration operations.                       *)
(***************************************************************************)
InjectBodyNoCheck(t, k, v) == Put(t, k, v)

InjectBody(t, k, v) == IF k \in DOMAIN t THEN t ELSE Put(t, k, v)

ForceInjectBodyChecked(t, k, v) == IF k \in DOMAIN t THEN t ELSE Put(t, k, v)

ForceInjectBody(t, k, v) == Put(t, k, v)

InjectWithPrefixBody(t, p, k, v) == Put(t, p \o k, v)

Body(t, k, v) ==
    CASE op = "Inject" -> InjectBody(t, k, v)
      [] op = "ForceInject" -> ForceInjectBody(t, k, v)
      [] op = "InjectWithPrefix" -> InjectWithPrefixBody(t, prefix, k, v)

(***************************************************************************)
(* Registration actions.  A call enters its for-range loop over            *)
(* GtfFuncMap; each step produces one entry not yet produced, in any       *)
(* order, reads its current value and runs the loop body on the target.    *)
(* An entry created in the ranged map during the loop may be produced or   *)
(* skipped.                                                                *)
(***************************************************************************)
\* A call may start: no call is running, and the model's bounds allow it.
CanCall ==
    /\ pc \in {"idle", "returned"}
    /\ helper = "none"
    /\ calls < MaxCalls
    /\ Cardinality(DOMAIN GtfFuncMap) <= MaxCatalog

Inject ==
    /\ CanCall
    /\ \E tg \in {"funcs", "GtfFuncMap"} :
           /\ pc' = "range"
           /\ op' = "Inject"
           /\ target' = tg
           /\ prefix' = ""
           /\ todo' = DOMAIN GtfFuncMap
           /\ created' = {}
           /\ cat0' = GtfFuncMap
           /\ funcs0' = IF tg = "GtfFuncMap" THEN GtfFuncMap ELSE funcs
           /\ calls' = calls + 1
           /\ UNCHANGED <<GtfFuncMap, funcs, helperVars>>

ForceInject ==
    /\ CanCall
    /\ \E tg \in {"funcs", "GtfFuncMap"} :
           /\ pc' = "range"
           /\ op' = "ForceInject"
           /\ target' = tg
           /\ prefix' = ""
           /\ todo' = DOMAIN GtfFuncMap
           /\ created' = {}
           /\ cat0' = GtfFuncMap
           /\ funcs0' = IF tg = "GtfFuncMap" THEN GtfFuncMap ELSE funcs
           /\ calls' = calls + 1
           /\ UNCHANGED <<GtfFuncMap, funcs, helperVars>>

InjectWithPrefix ==
    /\ CanCall
    /\ \E tg \in {"funcs", "GtfFuncMap"}, p \in Prefixes :
           /\ pc' = "range"
           /\ op' = "InjectWithPrefix"
           /\ target' = tg
           /\ prefix' = p
           /\ todo' = DOMAIN GtfFuncMap
           /\ created' = {}
           /\ cat0' = GtfFuncMap
           /\ funcs0' = IF tg = "GtfFuncMap" THEN GtfFuncMap ELSE funcs
           /\ calls' = calls + 1
           /\ UNCHANGED <<GtfFuncMap, funcs, helperVars>>

RangeStep ==
    /\ pc = "range"
    /\ \E k \in todo \cup {c \in created : Len(prefix \o c) <= MaxNameLen} :
        LET t1 == Body(TargetMap, k, GtfFuncMap[k])
        IN  /\ IF target = "GtfFuncMap"
                  THEN /\ GtfFuncMap' = t1
                       /\ created' =
                            (created \cup (DOMAIN t1 \ DOMAIN GtfFuncMap)) \ {k}
                       /\ UNCHANGED funcs
                  ELSE /\ funcs' = t1
                       /\ created' = created \ {k}
                       /\ UNCHANGED GtfFuncMap
            /\ todo' = todo \ {k}
    /\ UNCHANGED <<pc, op, target, prefix, cat0, funcs0, calls, helperVars>>

Return ==
    /\ pc = "range"
    /\ todo = {}
    /\ pc' = "returned"
    /\ created' = {}
    /\ UNCHANGED <<GtfFuncMap, funcs, op, target, prefix, todo, cat0, funcs0,
                   calls, helperVars>>

Init ==
    /\ GtfFuncMap = GtfTextFuncMap
    /\ funcs \in UserTables
    /\ pc = "idle"
    /\ op = "none"
    /\ target = "funcs"
    /\ prefix = ""
    /\ todo = {}
    /\ created = {}
    /\ cat0 = GtfTextFuncMap
    /\ funcs0 = funcs
    /\ calls = 0
    /\ uintSize = 64
    /\ helper = "none"
    /\ args = <<>>
    /\ argNum = [neg |-> FALSE, mag |-> <<>>]
    /\ ret = [panicked |-> FALSE, val |-> [kind |-> "nil"]]

Next ==
    \/ Inject
    \/ ForceInject
    \/ InjectWithPrefix
    \/ RangeStep
    \/ Return

Spec == Init /\ [][Next]_vars

(***************************************************************************)
(* Properties of the registration operations.                              *)
(***************************************************************************)
AtReturn(o) == pc = "returned" /\ op = o

PrefixedNames == {prefix \o k : k \in DOMAIN cat0}

\* C1: when Inject(t) has returned, every name t held before the call maps
\* to the implementation it had, no name of t was removed, every name of
\* the catalog is in t, and a catalog name that was absent from t maps to
\* the catalog's implementation.
C1_InjectKeepsExisting ==
    AtReturn("Inject") =>
        /\ \A n \in DOMAIN funcs0 :
              n \in DOMAIN TargetMap /\ TargetMap[n] = funcs0[n]
        /\ \A k \in DOMAIN cat0 :
              /\ k \in DOMAIN TargetMap
              /\ k \notin DOMAIN funcs0 => TargetMap[k] = cat0[k]
        /\ DOMAIN TargetMap = DOMAIN funcs0 \cup DOMAIN cat0

C1_Witness ==
    /\ AtReturn("Inject")
    /\ target = "funcs"
    /\ "title" \in DOMAIN funcs0
    /\ "lower" \notin DOMAIN funcs0
    /\ funcs["title"] = "user.f"
    /\ funcs["lower"] = "gtf.lower"

\* C2: when ForceInject(t) has returned, every catalog name maps in t to
\* the catalog's implementation, also where t held another implementation
\* under that name; the other entries of t are unchanged and none is removed.
C2_ForceInjectOverwrites ==
    AtReturn("ForceInject") =>
        /\ \A k \in DOMAIN cat0 :
              k \in DOMAIN TargetMap /\ TargetMap[k] = cat0[k]
        /\ \A n \in DOMAIN funcs0 \ DOMAIN cat0 :
              n \in DOMAIN TargetMap /\ TargetMap[n] = funcs0[n]
        /\ DOMAIN TargetMap = DOMAIN funcs0 \cup DOMAIN cat0

C2_Witness ==
    /\ AtReturn("ForceInject")
    /\ target = "funcs"
    /\ "title" \in DOMAIN funcs0
    /\ funcs0["title"] = "user.f"
    /\ funcs["title"] = "gtf.title"
    /\ "mine" \in DOMAIN funcs0
    /\ funcs["mine"] = "user.f"

\* C3: when InjectWithPrefix(t, p) has returned, p+k maps in t to the
\* catalog's implementation of k for every catalog name k, every entry of t
\* under another name is unchanged, and the names of t are those it had
\* plus one prefixed name per catalog entry.
C3_InjectWithPrefixAddsPrefixed ==
    AtReturn("InjectWithPrefix") =>
        /\ \A k \in DOMAIN cat0 :
              /\ prefix \o k \in DOMAIN TargetMap
              /\ TargetMap[prefix \o k] = cat0[k]
        /\ \A n \in DOMAIN funcs0 \ PrefixedNames :
              n \in DOMAIN TargetMap /\ TargetMap[n] = funcs0[n]
        /\ DOMAIN TargetMap = DOMAIN funcs0 \cup PrefixedNames

\* C3 on a table that is not the catalog map: the statement of C3 holds.
C3_OnCallerTable ==
    target = "funcs" => C3_InjectWithPrefixAddsPrefixed

\* C4: the catalog holds exactly the names and implementations it was
\* initialised with, whatever registration calls have run.
C4_CatalogReadOnly == GtfFuncMap = GtfTextFuncMap

\* C4 for calls whose target is not the catalog map, and for Inject and
\* ForceInject on any target: the catalog is as it was when the call began.
C4_CatalogKeptUnlessPrefixedIntoItself ==
    (target = "funcs" \/ op \in {"Inject", "ForceInject"} \/ prefix = "")
        => GtfFuncMap = cat0

(***************************************************************************)
(* HELPERS.                                                                *)
(*                                                                         *)
(* Machine integers.  reflect.Value.Int and .Uint hand every integer to    *)
(* the helpers as a 64-bit word (sign- or zero-extended).  A word is kept  *)
(* as four 16-bit limbs, least significant first, so that 64-bit           *)
(* wrap-around and the conversion to the build's uint are computed as the  *)
(* machine computes them.                                                  *)
(***************************************************************************)
Limb == 256 * 256

Zero64 == <<0, 0, 0, 0>>

One64 == <<1, 0, 0, 0>>

\* a + b + c modulo 2^64 (c a carry of 0 or 1).
AddC(a, b, c) ==
    LET s1 == a[1] + b[1] + c
        s2 == a[2] + b[2] + (s1 \div Limb)
        s3 == a[3] + b[3] + (s2 \div Limb)
        s4 == a[4] + b[4] + (s3 \div Limb)
    IN  <<s1 % Limb, s2 % Limb, s3 % Limb, s4 % Limb>>

Not64(a) == <<Limb - 1 - a[1], Limb - 1 - a[2], Limb - 1 - a[3], Limb - 1 - a[4]>>

\* -a modulo 2^64: the most negative int64 negates to itself.
Neg64(a) == AddC(Not64(a), Zero64, 1)

Sub64(a, b) == AddC(a, Not64(b), 1)

\* a * m + c modulo 2^64, for 0 <= m, c < 2^15.
MulAdd(a, m, c) ==
    LET s1 == a[1] * m + c
        s2 == a[2] * m + (s1 \div Limb)
        s3 == a[3] * m + (s2 \div Limb)
        s4 == a[4] * m + (s3 \div Limb)
    IN  <<s1 % Limb, s2 % Limb, s3 % Limb, s4 % Limb>>

\* Unsigned quotient and remainder of a by d, for 0 < d < 2^15.
DivMod(a, d) ==
    LET c4 == a[4]
        c3 == (c4 % d) * Limb + a[3]
        c2 == (c3 % d) * Limb + a[2]
        c1 == (c2 % d) * Limb + a[1]
    IN  [q |-> <<c1 \div d, c2 \div d, c3 \div d, c4 \div d>>, r |-> c1 % d]

\* The sign bit of the word read as int64.
IsNeg64(a) == a[4] >= Limb \div 2

\* The word is below 2^31 as an unsigned number.
IsSmall(a) == a[3] = 0 /\ a[4] = 0 /\ a[2] < Limb \div 2

Small(a) == a[2] * Limb + a[1]

\* Unsigned a < n, for 0 <= n < 2^31.
ULess(a, n) == IsSmall(a) /\ Small(a) < n

\* The word of an integer -2^31 < n < 2^31.
FromInt(n) ==
    IF n >= 0 THEN <<n % Limb, n \div Limb, 0, 0>>
    ELSE Neg64(<<(-n) % Limb, (-n) \div Limb, 0, 0>>)

\* The integer of a word read as int64, for words within -2^31 < n < 2^31.
SmallInt(a) == IF IsNeg64(a) THEN -Small(Neg64(a)) ELSE Small(a)

\* uint(x): the conversion of a 64-bit word to the build's uint.
ToUint(a) == IF uintSize = 32 THEN <<a[1], a[2], 0, 0>> ELSE a

\* int(x): the conversion to the build's int, sign-extended back to a word.
ToInt(a) ==
    IF uintSize = 32
    THEN IF a[2] >= Limb \div 2
         THEN <<a[1], a[2], Limb - 1, Limb - 1>>
         ELSE <<a[1], a[2], 0, 0>>
    ELSE a

(***************************************************************************)
(* Strings are sequences of runes; a rune is a one-character string.       *)
(***************************************************************************)
Digits == <<"0", "1", "2", "3", "4", "5", "6", "7", "8", "9">>

DigitChars(ds) == [i \in 1..Len(ds) |-> Digits[ds[i] + 1]]

\* The decimal digits of a word read as an unsigned number.
RECURSIVE DecDigits(_)
DecDigits(a) ==
    IF ULess(a, 10) THEN <<Small(a)>>
    ELSE Append(DecDigits(DivMod(a, 10).q), DivMod(a, 10).r)

\* fmt.Sprintf("%d", x) for an unsigned x.
FmtD(a) == DigitChars(DecDigits(a))

\* fmt.Sprintf("%03d", r) for 0 <= r < 1000.
Fmt03D(r) == DigitChars(<<r \div 100, (r \div 10) % 10, r % 10>>)

(***************************************************************************)
(* Values of interface{} type: a record tagged with its reflect.Kind.      *)
(***************************************************************************)
SignedKinds == {"int", "int8", "int16", "int32", "int64"}

UnsignedKinds == {"uint", "uint8", "uint16", "uint32", "uint64"}

IntKinds == SignedKinds \cup UnsignedKinds

IntVal(k, a) == [kind |-> k, w |-> a]

Str(s) == [kind |-> "string", s |-> s]

Bool(b) == [kind |-> "bool", b |-> b]

\* A float64 holding the whole number i.
Float(i) == [kind |-> "float64", i |-> i]

Nil == [kind |-> "nil"]

\* A panic on its way up the stack.
Panic == [kind |-> "panic"]

\* defer recovery(): the deferred function calls recover() itself, the panic
\* stops and the helper returns the zero value of its result type.
recovery(out, zero) == IF out = Panic THEN zero ELSE out

\* defer recover(): recover is not called by a deferred function, so it
\* returns nil and the panic goes on.
DeferRecover(out) == out

\* No deferred call at all.
NoDefer(out) == out

(***************************************************************************)
(* Integer arguments.  A number is given by its sign and decimal digits;   *)
(* Encode computes the word a Go integer of that value holds.              *)
(***************************************************************************)
\* Whole numbers -MaxSmall..MaxSmall are tried in every integer type.
MaxSmall == 25

RECURSIVE NatDigits(_)
NatDigits(n) == IF n < 10 THEN <<n>> ELSE Append(NatDigits(n \div 10), n % 10)

NumOf(n) == [neg |-> n < 0, mag |-> NatDigits(IF n < 0 THEN -n ELSE n)]

\* Magnitudes at the edges of the integer widths and of the comma groups.
EdgeMags ==
    {<<1, 2, 7>>,
     <<1, 2, 8>>,
     <<2, 5, 5>>,
     <<2, 5, 6>>,
     <<9, 9, 9>>,
     <<1, 0, 0, 0>>,
     <<1, 0, 0, 1>>,
     <<3, 2, 7, 6, 7>>,
     <<3, 2, 7, 6, 8>>,
     <<6, 5, 5, 3, 5>>,
     <<6, 5, 5, 3, 6>>,
     <<9, 9, 9, 9, 9, 9>>,
     <<1, 0, 0, 0, 0, 0, 0>>,
     <<1, 2, 3, 4, 5, 6, 7>>,
     <<2, 1, 4, 7, 4, 8, 3, 6, 4, 7>>,
     <<2, 1, 4, 7, 4, 8, 3, 6, 4, 8>>,
     <<4, 2, 9, 4, 9, 6, 7, 2, 9, 5>>,
     <<4, 2, 9, 4, 9, 6, 7, 2, 9, 6>>,
     <<4, 2, 9, 4, 9, 6, 8, 2, 9, 7>>,
     <<9, 2, 2, 3, 3, 7, 2, 0, 3, 6, 8, 5, 4, 7, 7, 5, 8, 0, 7>>,
     <<9, 2, 2, 3, 3, 7, 2, 0, 3, 6, 8, 5, 4, 7, 7, 5, 8, 0, 8>>,
     <<1, 8, 4, 4, 6, 7, 4, 4, 0, 7, 3, 7, 0, 9, 5, 5, 1, 6, 1, 5>>}

Nums ==
    {NumOf(n) : n \in -MaxSmall..MaxSmall}
        \cup {[neg |-> s, mag |-> m] : s \in BOOLEAN, m \in EdgeMags}

RECURSIVE EncMag(_)
EncMag(ds) ==
    IF ds = <<>> THEN Zero64
    ELSE MulAdd(EncMag(SubSeq(ds, 1, Len(ds) - 1)), 10, ds[Len(ds)])

Encode(num) == IF num.neg THEN Neg64(EncMag(num.mag)) ELSE EncMag(num.mag)

\* Digit sequences compared as numbers.
DLess(a, b) ==
    \/ Len(a) < Len(b)
    \/ /\ Len(a) = Len(b)
       /\ \E i \in 1..Len(a) :
             a[i] < b[i] /\ \A j \in 1..(i - 1) : a[j] = b[j]

\* The digits of 2^b.
Pow2(b) ==
    CASE b = 7 -> <<1, 2, 8>>
      [] b = 8 -> <<2, 5, 6>>
      [] b = 15 -> <<3, 2, 7, 6, 8>>
      [] b = 16 -> <<6, 5, 5, 3, 6>>
      [] b = 31 -> <<2, 1, 4, 7, 4, 8, 3, 6, 4, 8>>
      [] b = 32 -> <<4, 2, 9, 4, 9, 6, 7, 2, 9, 6>>
      [] b = 63 -> <<9, 2, 2, 3, 3, 7, 2, 0, 3, 6, 8, 5, 4, 7, 7, 5, 8, 0, 8>>
      [] b = 64 -> <<1, 8, 4, 4, 6, 7, 4, 4, 0, 7, 3, 7, 0, 9, 5, 5, 1, 6, 1, 6>>

\* Bits of an integer type on this build.
Bits(k) ==
    CASE k \in {"int8", "uint8"} -> 8
      [] k \in {"int16", "uint16"} -> 16
      [] k \in {"int32", "uint32"} -> 32
      [] k \in {"int64", "uint64"} -> 64
      [] k \in {"int", "uint"} -> uintSize

\* The number is a value of the integer type.
Fits(k, num) ==
    IF k \in SignedKinds
    THEN IF num.neg /\ num.mag # <<0>>
         THEN ~DLess(Pow2(Bits(k) - 1), num.mag)
         ELSE DLess(num.mag, Pow2(Bits(k) - 1))
    ELSE (~num.neg \/ num.mag = <<0>>) /\ DLess(num.mag, Pow2(Bits(k)))

\* The integer arguments: <<value, the number it holds>>.
IntArgs ==
    {<<IntVal(k, Encode(n)), [neg |-> n.neg /\ n.mag # <<0>>, mag |-> n.mag]>> :
        <<k, n>> \in {p \in IntKinds \X Nums : Fits(p[1], p[2])}}

\* Integer arguments within -2^27 < n < 2^27 (exact as float64, and within
\* the range of the model's own arithmetic).
ModerateArgs ==
    {p \in IntArgs : Len(p[2].mag) <= 8}

\* Arguments of other kinds hold no number.
NoNum == [neg |-> FALSE, mag |-> <<>>]

OtherArgs ==
    {<<Str(<<"1", "2">>), NoNum>>, <<Nil, NoNum>>, <<Bool(TRUE), NoNum>>}

(***************************************************************************)
(* The numeric helpers.                                                    *)
(***************************************************************************)
\* minus (gtf.go:130-139): i is a word holding an int.
minusBody(value, i) ==
    IF value.kind \in SignedKinds
    THEN IF value.kind = "int"
         THEN IntVal("int", ToInt(Sub64(value.w, i)))
         ELSE Panic   \* value.(int) on an int8, int16, int32 or int64
    ELSE IntVal("int", Zero64)

minus(value, i) == recovery(minusBody(value, i), IntVal("int", Zero64))

\* apnumber (gtf.go:544-563).  name has ten elements, nine of them set.
name ==
    <<<<"o", "n", "e">>,
      <<"t", "w", "o">>,
      <<"t", "h", "r", "e", "e">>,
      <<"f", "o", "u", "r">>,
      <<"f", "i", "v", "e">>,
      <<"s", "i", "x">>,
      <<"s", "e", "v", "e", "n">>,
      <<"e", "i", "g", "h", "t">>,
      <<"n", "i", "n", "e">>,
      <<>>>>

apnumberBody(value) ==
    IF value.kind \in SignedKinds
    THEN IF IsNeg64(value.w) \/ ULess(value.w, 10)
         THEN IF IsNeg64(value.w) \/ value.w = Zero64
              THEN Panic   \* name[v.Int()-1] with a negative index
              ELSE Str(name[Small(value.w)])
         ELSE value
    ELSE IF value.kind \in UnsignedKinds
    THEN IF ULess(value.w, 10)
         THEN IF value.w = Zero64
              THEN Panic   \* name[v.Uint()-1]: the index wraps to 2^64-1
              ELSE Str(name[Small(value.w)])
         ELSE value
    ELSE value

apnumber(value) == recovery(apnumberBody(value), Nil)

\* divisibleby (gtf.go:374-402).  float64(x) is x itself for the moderate
\* integers the model passes; math.Mod(v, 0) is NaN, which is not 0.
IsNumber(x) == x.kind \in IntKinds \cup {"float32", "float64"}

AsFloat(x) == IF x.kind \in IntKinds THEN SmallInt(x.w) ELSE x.i

Abs(n) == IF n < 0 THEN -n ELSE n

divisiblebyBody(arg, value) ==
    IF ~IsNumber(value) THEN Bool(FALSE)
    ELSE IF ~IsNumber(arg) THEN Bool(FALSE)
    ELSE Bool(AsFloat(arg) # 0 /\ Abs(AsFloat(value)) % Abs(AsFloat(arg)) = 0)

divisibleby(arg, value) == recovery(divisiblebyBody(arg, value), Bool(FALSE))

\* strings.Contains(s, c) and strings.Split(s, c) for a one-rune c.
Contains(s, c) == \E i \in 1..Len(s) : s[i] = c

Index(s, c) == CHOOSE i \in 1..Len(s) : s[i] = c /\ \A j \in 1..(i - 1) : s[j] # c

RECURSIVE Split(_, _)
Split(s, c) ==
    IF ~Contains(s, c) THEN <<s>>
    ELSE <<SubSeq(s, 1, Index(s, c) - 1)>>
            \o Split(SubSeq(s, Index(s, c) + 1, Len(s)), c)

\* pluralize (gtf.go:426-455).
pluralizeBody(arg, value) ==
    IF value.kind \notin IntKinds THEN Str(<<>>)
    ELSE LET flag == value.w = One64
             bits == Split(IF ~Contains(arg, ",") THEN <<",">> \o arg ELSE arg, ",")
         IN  IF Len(bits) > 2 THEN Str(<<>>)
             ELSE IF flag THEN Str(bits[1])
             ELSE Str(bits[2])

pluralize(arg, value) == recovery(pluralizeBody(arg, value), Str(<<>>))

\* intcomma (gtf.go:564-597).
RECURSIVE CommaLoop(_, _)
CommaLoop(x, result) ==
    IF ~ULess(x, 1000)
    THEN CommaLoop(DivMod(x, 1000).q,
                   <<",">> \o Fmt03D(DivMod(x, 1000).r) \o result)
    ELSE FmtD(x) \o result

intcommaBody(value) ==
    IF value.kind \in SignedKinds
    THEN LET isMinus == IsNeg64(value.w)
             x == IF isMinus THEN ToUint(Neg64(value.w)) ELSE ToUint(value.w)
         IN  Str((IF isMinus THEN <<"-">> ELSE <<>>) \o CommaLoop(x, <<>>))
    ELSE IF value.kind \in UnsignedKinds
    THEN Str(CommaLoop(ToUint(value.w), <<>>))
    ELSE Str(<<>>)

intcomma(value) == recovery(intcommaBody(value), Str(<<>>))

\* ordinal (gtf.go:598-624).
suffixes == <<<<"t", "h">>, <<"s", "t">>, <<"n", "d">>, <<"r", "d">>, <<"t", "h">>, <<"t", "h">>, <<"t", "h">>, <<"t", "h">>, <<"t", "h">>, <<"t", "h">>>>

ordinalOf(x) ==
    IF DivMod(x, 100).r \in {11, 12, 13}
    THEN Str(FmtD(x) \o suffixes[1])
    ELSE Str(FmtD(x) \o suffixes[DivMod(x, 10).r + 1])

ordinalBody(value) ==
    IF value.kind \in SignedKinds
    THEN IF IsNeg64(value.w) THEN Str(<<>>) ELSE ordinalOf(ToUint(value.w))
    ELSE IF value.kind \in UnsignedKinds THEN ordinalOf(ToUint(value.w))
    ELSE Str(<<>>)

ordinal(value) == recovery(ordinalBody(value), Str(<<>>))

\* strings.Replace(s, old, "", -1): s with every occurrence of old removed,
\* scanning from the left.
RECURSIVE RemoveAll(_, _)
RemoveAll(s, old) ==
    IF Len(s) < Len(old) THEN s
    ELSE IF SubSeq(s, 1, Len(old)) = old
    THEN RemoveAll(SubSeq(s, Len(old) + 1, Len(s)), old)
    ELSE <<s[1]>> \o RemoveAll(SubSeq(s, 2, Len(s)), old)

\* fmt.Sprintf("%.1f", n/d) for whole n and d > 0 a power of two: the
\* quotient is exact in float64 and is rounded to one decimal, a tie going
\* to the even digit.
Fmt1F(n, d) ==
    LET a == Abs(n)
        q == a \div d
        r == a % d
        t == (r * 10) \div d
        rr == (r * 10) % d
        up == 2 * rr > d \/ (2 * rr = d /\ t % 2 = 1)
        t1 == IF up THEN t + 1 ELSE t
        q2 == IF t1 = 10 THEN q + 1 ELSE q
        t2 == IF t1 = 10 THEN 0 ELSE t1
    IN  (IF n < 0 THEN <<"-">> ELSE <<>>)
            \o DigitChars(NatDigits(q2)) \o <<".">> \o DigitChars(<<t2>>)

\* filesizeformat (gtf.go:500-543).
filesizeFormat(filesize, unit, suffix) ==
    RemoveAll(Fmt1F(filesize, unit) \o <<" ">> \o suffix, <<".", "0">>)

filesizeformatBody(value) ==
    IF ~IsNumber(value) THEN Str(<<>>)
    ELSE LET size == AsFloat(value)
             KB == 1024
             MB == 1024 * 1024
             GB == 1024 * 1024 * 1024
             TB == 1024 * 1024 * 1024 * 1024
             PB == 1024 * 1024 * 1024 * 1024 * 1024
         IN  IF size < KB THEN Str(filesizeFormat(size, 1, <<"b", "y", "t", "e", "s">>))
             ELSE IF size < MB THEN Str(filesizeFormat(size, KB, <<"K", "B">>))
             ELSE IF size < GB THEN Str(filesizeFormat(size, MB, <<"M", "B">>))
             ELSE IF size < TB THEN Str(filesizeFormat(size, GB, <<"G", "B">>))
             ELSE IF size < PB THEN Str(filesizeFormat(size, TB, <<"T", "B">>))
             ELSE Str(filesizeFormat(size, PB, <<"P", "B">>))

filesizeformat(value) == recovery(filesizeformatBody(value), Str(<<>>))

(***************************************************************************)
(* String helpers.  A Go string is a sequence of units: the encoding of a  *)
(* valid rune ("a", "b"), or a byte that is not valid UTF-8 (InvalidByte). *)
(* []rune(s) decodes it, an invalid byte giving RuneError (U+FFFD), and    *)
(* string(r) encodes runes back, RuneError as the valid rune it is.        *)
(***************************************************************************)
\* Longest string handed to truncatechars.
MaxStrLen == 5
\* Longest string or slice (by capacity) handed to slice.
MaxSeqLen == 3

InvalidByte == "\\xff"

RuneError == "\\uFFFD"

Units == {"a", "b", InvalidByte}

StringsUpTo(n) == UNION {[1..m -> Units] : m \in 0..n}

\* []rune(s)
Runes(s) == [i \in 1..Len(s) |-> IF s[i] = InvalidByte THEN RuneError ELSE s[i]]

\* string(r) for a rune slice r
StringOf(r) == [i \in 1..Len(r) |-> r[i]]

\* r[:n] and r[i:j] on a rune slice, for 0 <= i <= j <= len(r).
Sub(r, i, j) == SubSeq(r, i + 1, j)

\* truncatechars (gtf.go:344-363).
truncatecharsNoEllipsis(n, s) ==
    IF n < 0 \/ n >= Len(Runes(s)) THEN Str(s)
    ELSE Str(StringOf(Sub(Runes(s), 0, n)))

truncatecharsBody(n, s) ==
    IF n < 0 THEN Str(s)
    ELSE LET r == Runes(s)
             rLength == Len(r)
         IN  IF n >= rLength THEN Str(s)
             ELSE IF n > 3 /\ rLength > 3
             THEN Str(StringOf(Sub(r, 0, n - 3)) \o <<".", ".", ".">>)
             ELSE Str(StringOf(Sub(r, 0, n)))

truncatechars(n, s) == recovery(truncatecharsBody(n, s), Str(<<>>))

\* A Go slice value: its backing array from the slice's first element on
\* (cap elements), and its length.
SliceVal(arr, n) == [kind |-> "slice", arr |-> arr, len |-> n]

Elems(v) == SubSeq(v.arr, 1, v.len)

Cap(v) == Len(v.arr)

\* A slicing that clamped the end to the length, as the string branch does.
ReflectSliceClamped(v, i, j) ==
    IF i < 0 \/ j < i \/ i > v.len THEN Panic
    ELSE IF j > v.len THEN SliceVal(SubSeq(v.arr, i + 1, Cap(v)), v.len - i)
    ELSE SliceVal(SubSeq(v.arr, i + 1, Cap(v)), j - i)

\* reflect.Value.Slice(i, j) on a slice: panics unless 0 <= i <= j <= cap.
ReflectSlice(v, i, j) ==
    IF i < 0 \/ j < i \/ j > Cap(v) THEN Panic
    ELSE SliceVal(SubSeq(v.arr, i + 1, Cap(v)), j - i)

\* str[start:end] on a rune slice: panics unless 0 <= start <= end <= len.
RuneSlice(str, start, end) ==
    IF start < 0 \/ end < start \/ end > Len(str) THEN Panic
    ELSE Str(StringOf(Sub(str, start, end)))

\* slice (gtf.go:659-681).
sliceBody(start, end, value) ==
    LET start1 == IF start < 0 THEN 0 ELSE start
    IN  IF value.kind = "string"
        THEN LET str == Runes(value.s)
                 end1 == IF end > Len(str) THEN Len(str) ELSE end
             IN  RuneSlice(str, start1, end1)
        ELSE IF value.kind = "slice"
        THEN ReflectSlice(value, start1, end)
        ELSE Str(<<>>)

slice(start, end, value) == recovery(sliceBody(start, end, value), Nil)

\* capfirst (gtf.go:421-425): s[0] on the empty string is out of range.
ToUpper(c) == IF c = "a" THEN "A" ELSE IF c = "b" THEN "B" ELSE c

capfirstBody(s) ==
    IF Len(s) = 0 THEN Panic
    ELSE Str(<<ToUpper(s[1])>> \o SubSeq(s, 2, Len(s)))

capfirst(s) == recovery(capfirstBody(s), Str(<<>>))

\* striptags (gtf.go:705-707): every match of "<[^>]*?>" is removed, then
\* the white space at both ends.  No deferred call.
RECURSIVE StripTags(_)
StripTags(s) ==
    IF s = <<>> THEN <<>>
    ELSE IF s[1] = "<" /\ Contains(SubSeq(s, 2, Len(s)), ">")
    THEN StripTags(SubSeq(s, Index(SubSeq(s, 2, Len(s)), ">") + 2, Len(s)))
    ELSE <<s[1]>> \o StripTags(SubSeq(s, 2, Len(s)))

RECURSIVE TrimLeft(_)
TrimLeft(s) ==
    IF s # <<>> /\ s[1] = " " THEN TrimLeft(SubSeq(s, 2, Len(s))) ELSE s

RECURSIVE TrimRight(_)
TrimRight(s) ==
    IF s # <<>> /\ s[Len(s)] = " " THEN TrimRight(SubSeq(s, 1, Len(s) - 1)) ELSE s

TrimSpace(s) == TrimRight(TrimLeft(s))

striptags(s) == NoDefer(Str(TrimSpace(StripTags(s))))

(***************************************************************************)
(* Calls into third-party packages (gomarkdown, blackfriday, timeago).     *)
(* Their code is not part of this repository: such a call returns some     *)
(* string or panics.                                                       *)
(***************************************************************************)
LibraryResults == {Panic, Str(<<>>), Str(<<"o", "u", "t">>)}

\* markdown2 (gtf.go:220-227): no deferred call.
markdown2(value, lib) == NoDefer(lib)

\* markdown (gtf.go:228-235).
markdown(value, lib) == recovery(lib, Str(<<>>))

\* toValue (gtf.go:35-44): defer recover(), which recovers nothing.
toValueBody(value) ==
    IF value.kind = "ObjectID" THEN Str(value.hex) ELSE value

toValue(value) == DeferRecover(toValueBody(value))

(***************************************************************************)
(* Timestamps.  A time.Time is an instant counted in seconds from the zero *)
(* instant; IsZero holds of instant 0 alone.                               *)
(***************************************************************************)
\* Latest instant (and latest clock reading) tried.
MaxTime == 3

Time(t) == [kind |-> "time", t |-> t]

Times == {Time(t) : t \in 0..MaxTime}

IsZero(v) == v.t = 0

\* time.LoadLocation: the locations the build knows.
KnownLocations == {"Asia/Shanghai", "UTC"}

\* t.Format("2006-01-02 15:04 -07"): the rendering of an instant in a
\* location, kept as the instant's digits and the location's name.
TimeFormat(t, loc) == DigitChars(NatDigits(t)) \o <<" ", loc>>

\* timeIn (gtf.go:45-60).
timeInNoZeroCheck(t, locName) ==
    LET locName1 == IF locName = "" THEN "Asia/Shanghai" ELSE locName
    IN  Str(TimeFormat(t.t, IF locName1 \in KnownLocations THEN locName1 ELSE "Local"))

timeInBody(t, locName) ==
    IF IsZero(t) THEN Str(<<>>)
    ELSE LET locName1 == IF locName = "" THEN "Asia/Shanghai" ELSE locName
         IN  Str(TimeFormat(t.t, IF locName1 \in KnownLocations
                                 THEN locName1 ELSE "Local"))

timeIn(t, locName) == recovery(timeInBody(t, locName), Str(<<>>))

\* duration (gtf.go:107-111): a float64 number of seconds.
durationBody(start, stop) == Float(stop.t - start.t)

duration(start, stop) == recovery(durationBody(start, stop), Float(0))

\* fmt.Sprintf("%.2fms", x) for a whole number x.
Fmt2Fms(x) ==
    (IF x < 0 THEN <<"-">> ELSE <<>>)
        \o DigitChars(NatDigits(Abs(x))) \o <<".", "0", "0", "m", "s">>

\* renderTime (gtf.go:209-219); now is the reading of time.Now().
renderTimeBody(value, now) ==
    IF value.kind = "time"
    THEN Str(Fmt2Fms((now - value.t) * 1000))
    ELSE Str(<<>>)

renderTime(value, now) == recovery(renderTimeBody(value, now), Str(<<>>))

\* timeago (gtf.go:236-239): the result of timeago.English.Format.
timeago(value, lib) == recovery(lib, Str(<<>>))

(***************************************************************************)
(* One helper call per behaviour: a helper is applied to arguments drawn   *)
(* from the sets above, and its outcome is recorded.                       *)
(***************************************************************************)
\* What the caller gets: the value returned, or a panic.
Outcome(out) == [panicked |-> out = Panic, val |-> out]

\* Arguments for the int parameter of minus.
MinusArgs == {-1, 0, 2, 7}

\* Divisors for divisibleby.
DivisorArgs ==
    {IntVal("int", FromInt(2)), IntVal("int", FromInt(0)),
     IntVal("int8", FromInt(-3)), IntVal("uint16", FromInt(5)),
     Float(4), Str(<<"2">>)}

\* Suffix arguments for pluralize: "s", "y,ies", "x,y,z" and "".
PluralArgs ==
    {<<"s">>, <<"y", ",", "i", "e", "s">>, <<"x", ",", "y", ",", "z">>, <<>>}

minusCall ==
    /\ helper = "none"
    /\ \E p \in ModerateArgs \cup OtherArgs, i \in MinusArgs :
           /\ helper' = "minus"
           /\ args' = <<p[1], IntVal("int", FromInt(i))>>
           /\ argNum' = p[2]
           /\ ret' = Outcome(minus(p[1], FromInt(i)))
           /\ UNCHANGED <<regVars, uintSize>>

apnumberCall ==
    /\ helper = "none"
    /\ \E p \in IntArgs \cup OtherArgs :
           /\ helper' = "apnumber"
           /\ args' = <<p[1]>>
           /\ argNum' = p[2]
           /\ ret' = Outcome(apnumber(p[1]))
           /\ UNCHANGED <<regVars, uintSize>>

divisiblebyCall ==
    /\ helper = "none"
    /\ \E p \in ModerateArgs \cup OtherArgs \cup {<<Float(6), NoNum>>},
          a \in DivisorArgs :
           /\ helper' = "divisibleby"
           /\ args' = <<a, p[1]>>
           /\ argNum' = p[2]
           /\ ret' = Outcome(divisibleby(a, p[1]))
           /\ UNCHANGED <<regVars, uintSize>>

pluralizeCall ==
    /\ helper = "none"
    /\ \E p \in IntArgs \cup OtherArgs, a \in PluralArgs :
           /\ helper' = "pluralize"
           /\ args' = <<Str(a), p[1]>>
           /\ argNum' = p[2]
           /\ ret' = Outcome(pluralize(a, p[1]))
           /\ UNCHANGED <<regVars, uintSize>>

intcommaCall ==
    /\ helper = "none"
    /\ \E p \in IntArgs \cup OtherArgs \cup {<<Float(6), NoNum>>} :
           /\ helper' = "intcomma"
           /\ args' = <<p[1]>>
           /\ argNum' = p[2]
           /\ ret' = Outcome(intcomma(p[1]))
           /\ UNCHANGED <<regVars, uintSize>>

ordinalCall ==
    /\ helper = "none"
    /\ \E p \in IntArgs \cup OtherArgs :
           /\ helper' = "ordinal"
           /\ args' = <<p[1]>>
           /\ argNum' = p[2]
           /\ ret' = Outcome(ordinal(p[1]))
           /\ UNCHANGED <<regVars, uintSize>>

filesizeformatCall ==
    /\ helper = "none"
    /\ \E p \in ModerateArgs \cup OtherArgs \cup {<<Float(1536), NoNum>>} :
           /\ helper' = "filesizeformat"
           /\ args' = <<p[1]>>
           /\ argNum' = p[2]
           /\ ret' = Outcome(filesizeformat(p[1]))
           /\ UNCHANGED <<regVars, uintSize>>

\* Values handed to slice: strings, slices with spare capacity or none,
\* an array, an integer and nil.
SliceArgs ==
    {Str(x) : x \in StringsUpTo(MaxSeqLen)}
        \cup {SliceVal(arr, n) :
                <<arr, n>> \in {p \in StringsUpTo(MaxSeqLen) \X (0..MaxSeqLen) :
                                  p[2] <= Len(p[1])}}
        \cup {[kind |-> "array", arr |-> <<"a", "b">>], IntVal("int", One64), Nil}

TagStrings == UNION {[1..m -> {"<", ">", "a", " "}] : m \in 0..MaxSeqLen + 1}

ObjectID == [kind |-> "ObjectID", hex |-> <<"5", "f">>]

truncatecharsCall ==
    /\ helper = "none"
    /\ \E n \in -1..(MaxStrLen + 1), x \in StringsUpTo(MaxStrLen) :
           /\ helper' = "truncatechars"
           /\ args' = <<n, Str(x)>>
           /\ argNum' = NoNum
           /\ ret' = Outcome(truncatechars(n, x))
           /\ UNCHANGED <<regVars, uintSize>>

sliceCall ==
    /\ helper = "none"
    /\ \E start \in -1..(MaxSeqLen + 1), end \in -1..(MaxSeqLen + 1),
          value \in SliceArgs :
           /\ helper' = "slice"
           /\ args' = <<start, end, value>>
           /\ argNum' = NoNum
           /\ ret' = Outcome(slice(start, end, value))
           /\ UNCHANGED <<regVars, uintSize>>

capfirstCall ==
    /\ helper = "none"
    /\ \E x \in UNION {[1..m -> {"a", "b"}] : m \in 0..2} :
           /\ helper' = "capfirst"
           /\ args' = <<Str(x)>>
           /\ argNum' = NoNum
           /\ ret' = Outcome(capfirst(x))
           /\ UNCHANGED <<regVars, uintSize>>

striptagsCall ==
    /\ helper = "none"
    /\ \E x \in TagStrings :
           /\ helper' = "striptags"
           /\ args' = <<Str(x)>>
           /\ argNum' = NoNum
           /\ ret' = Outcome(striptags(x))
           /\ UNCHANGED <<regVars, uintSize>>

markdown2Call ==
    /\ helper = "none"
    /\ \E x \in StringsUpTo(1), lib \in LibraryResults :
           /\ helper' = "markdown2"
           /\ args' = <<Str(x), lib>>
           /\ argNum' = NoNum
           /\ ret' = Outcome(markdown2(x, lib))
           /\ UNCHANGED <<regVars, uintSize>>

markdownCall ==
    /\ helper = "none"
    /\ \E x \in StringsUpTo(1), lib \in LibraryResults :
           /\ helper' = "markdown"
           /\ args' = <<Str(x), lib>>
           /\ argNum' = NoNum
           /\ ret' = Outcome(markdown(x, lib))
           /\ UNCHANGED <<regVars, uintSize>>

toValueCall ==
    /\ helper = "none"
    /\ \E value \in {ObjectID, Str(<<"a">>), Nil, IntVal("int8", One64)} :
           /\ helper' = "toValue"
           /\ args' = <<value>>
           /\ argNum' = NoNum
           /\ ret' = Outcome(toValue(value))
           /\ UNCHANGED <<regVars, uintSize>>

timeInCall ==
    /\ helper = "none"
    /\ \E t \in Times, locName \in {"", "UTC", "Mars/Base"} :
           /\ helper' = "timeIn"
           /\ args' = <<t, locName>>
           /\ argNum' = NoNum
           /\ ret' = Outcome(timeIn(t, locName))
           /\ UNCHANGED <<regVars, uintSize>>

durationCall ==
    /\ helper = "none"
    /\ \E start \in Times, stop \in Times :
           /\ helper' = "duration"
           /\ args' = <<start, stop>>
           /\ argNum' = NoNum
           /\ ret' = Outcome(duration(start, stop))
           /\ UNCHANGED <<regVars, uintSize>>

\* args[2] records the reading of time.Now() during the call.
renderTimeCall ==
    /\ helper = "none"
    /\ \E value \in Times \cup {Str(<<"a">>), Nil, IntVal("int64", One64)},
          now \in 0..MaxTime :
           /\ helper' = "renderTime"
           /\ args' = <<value, now>>
           /\ argNum' = NoNum
           /\ ret' = Outcome(renderTime(value, now))
           /\ UNCHANGED <<regVars, uintSize>>

\* args[2] records what timeago.English.Format did during the call.
timeagoCall ==
    /\ helper = "none"
    /\ \E value \in Times, lib \in LibraryResults :
           /\ helper' = "timeago"
           /\ args' = <<value, lib>>
           /\ argNum' = NoNum
           /\ ret' = Outcome(timeago(value, lib))
           /\ UNCHANGED <<regVars, uintSize>>

\* The process has started on a 32-bit or on a 64-bit build; no helper has
\* been called and no registration call made.
HelperInit ==
    /\ GtfFuncMap = GtfTextFuncMap
    /\ funcs = << >>
    /\ pc = "idle"
    /\ op = "none"
    /\ target = "funcs"
    /\ prefix = ""
    /\ todo = {}
    /\ created = {}
    /\ cat0 = GtfTextFuncMap
    /\ funcs0 = << >>
    /\ calls = 0
    /\ uintSize \in {32, 64}
    /\ helper = "none"
    /\ args = <<>>
    /\ argNum = NoNum
    /\ ret = Outcome(Nil)

HelperNext ==
    \/ minusCall
    \/ apnumberCall
    \/ divisiblebyCall
    \/ pluralizeCall
    \/ intcommaCall
    \/ ordinalCall
    \/ filesizeformatCall
    \/ truncatecharsCall
    \/ sliceCall
    \/ capfirstCall
    \/ striptagsCall
    \/ markdown2Call
    \/ markdownCall
    \/ toValueCall
    \/ timeInCall
    \/ durationCall
    \/ renderTimeCall
    \/ timeagoCall

HelperSpec == HelperInit /\ [][HelperNext]_vars

(***************************************************************************)
(* Properties of the helpers.                                              *)
(***************************************************************************)
Called(h) == helper = h

Returned(v) == ret = [panicked |-> FALSE, val |-> v]

\* C5: whatever helper was called on whatever argument, the call returned
\* a value: no fault raised while the helper ran reaches the caller.
C5_NoFaultReachesCaller == ~ret.panicked

\* C5 for the helpers that defer recovery(), and for toValue and striptags,
\* whose bodies raise no fault: only markdown2 lets a fault through.
C5_OnlyMarkdown2LetsAFaultThrough == ret.panicked => Called("markdown2")

\* C6: timeago, timeIn, duration and renderTime return the empty string
\* when given a zero-valued timestamp and when given a value that is not a
\* timestamp.
C6_TimestampHelpersReturnEmpty ==
    (helper \in {"timeago", "timeIn", "duration", "renderTime"}
        /\ (args[1].kind # "time" \/ IsZero(args[1])))
    => Returned(Str(<<>>))

\* C6 as amended: timeIn returns the empty string for the zero timestamp and
\* a non-empty rendering otherwise; renderTime returns the empty string for a
\* value that is not a timestamp and, for every timestamp, the zero one
\* included, a non-empty string ending in "ms"; duration returns a float64
\* (the seconds from start to stop, 0 for two zero timestamps), never a
\* string; timeago returns what the timeago package returns, or the empty
\* string if that package panics.
C6_Amended ==
    /\ Called("timeIn") =>
          /\ ~ret.panicked
          /\ ret.val.kind = "string"
          /\ (ret.val.s = <<>>) <=> IsZero(args[1])
    /\ Called("renderTime") =>
          /\ ~ret.panicked
          /\ ret.val.kind = "string"
          /\ (ret.val.s = <<>>) <=> (args[1].kind # "time")
          /\ args[1].kind = "time" =>
                /\ Len(ret.val.s) > 2
                /\ SubSeq(ret.val.s, Len(ret.val.s) - 1, Len(ret.val.s)) = <<"m", "s">>
    /\ Called("duration") =>
          /\ ~ret.panicked
          /\ ret.val.kind = "float64"
          /\ ret.val.i + args[1].t = args[2].t
    /\ Called("timeago") =>
          Returned(IF args[2] = Panic THEN Str(<<>>) ELSE args[2])

C6_Witness ==
    /\ Called("timeIn")
    /\ IsZero(args[1])
    /\ Returned(Str(<<>>))

\* The value argument of a numeric helper call, retyped as kind k.
Retyped(k) ==
    IF helper \in {"divisibleby", "pluralize"}
    THEN <<args[1], IntVal(k, args[2].w)>>
    ELSE IF helper = "minus" THEN <<IntVal(k, args[1].w), args[2]>>
    ELSE <<IntVal(k, args[1].w)>>

Apply(h, a) ==
    CASE h = "minus" -> minus(a[1], a[2].w)
      [] h = "apnumber" -> apnumber(a[1])
      [] h = "divisibleby" -> divisibleby(a[1], a[2])
      [] h = "pluralize" -> pluralize(a[1].s, a[2])
      [] h = "intcomma" -> intcomma(a[1])
      [] h = "ordinal" -> ordinal(a[1])
      [] h = "filesizeformat" -> filesizeformat(a[1])

\* Two results are the same when they are equal, or are the same number held
\* in two integer types.
SameResult(x, y) ==
    \/ x = y
    \/ x.kind \in IntKinds /\ y.kind \in IntKinds /\ x.w = y.w

NumericHelpers ==
    {"minus", "apnumber", "divisibleby", "pluralize", "intcomma", "ordinal",
     "filesizeformat"}

\* C7: a numeric helper called on a number n held in one integer type returns
\* what it returns for the same n held in any other integer type that can
\* hold n; for minus(value, i) that result is n - i.
C7_NumericHelpersNormalize ==
    (helper \in NumericHelpers /\ argNum # NoNum) =>
        /\ \A k \in IntKinds :
              Fits(k, argNum) =>
                  SameResult(Apply(helper, Retyped(k)), ret.val)
        /\ Called("minus") =>
              Returned(IntVal("int",
                  FromInt(SmallInt(args[1].w) - SmallInt(args[2].w))))

\* C7 without minus: the other six numeric helpers return the same result
\* for the same number in every integer type that holds it.
C7_ExceptMinus ==
    (helper \in NumericHelpers \ {"minus"} /\ argNum # NoNum) =>
        \A k \in IntKinds :
            Fits(k, argNum) => SameResult(Apply(helper, Retyped(k)), ret.val)

\* max(a, 0) and min(a, b).
Max0(a) == IF a < 0 THEN 0 ELSE a

Min(a, b) == IF a < b THEN a ELSE b

\* C8: slice(start, end, value) on a string of n runes or a sequence of n
\* elements, with s = max(start, 0), e = min(end, n) and s <= e, returns
\* exactly the elements at positions s..e-1 (so slice(0, n, value) is
\* value); on a value of another type it returns the empty string.
C8_SliceClampsBothBounds ==
    Called("slice") =>
        LET value == args[3]
            s == Max0(args[1])
        IN  /\ value.kind = "string" =>
                  LET n == Len(Runes(value.s))
                      e == Min(args[2], n)
                  IN  s <= e =>
                        /\ Returned(Str(SubSeq(Runes(value.s), s + 1, e)))
                        /\ (s = 0 /\ e = n) => Returned(value)
            /\ value.kind = "slice" =>
                  LET n == value.len
                      e == Min(args[2], n)
                  IN  s <= e =>
                        /\ ~ret.panicked
                        /\ ret.val.kind = "slice"
                        /\ Elems(ret.val) = SubSeq(Elems(value), s + 1, e)
            /\ value.kind \notin {"string", "slice"} => Returned(Str(<<>>))

\* C8 as amended.  On a string of n runes, with s = max(start, 0),
\* e = min(end, n) and s <= e, slice returns the runes at positions s..e-1
\* of the decoded string, a byte that is not valid UTF-8 coming back as
\* U+FFFD (so slice(0, n, value) is value when value is valid UTF-8).  On a Go
\* slice of n elements and capacity c only start is clamped: with
\* s <= end <= c it returns end - s elements, those at positions s..end-1 of
\* the backing array (the value's own elements where end <= n); with
\* end > c or end < s the fault is swallowed and nil is returned.  On a value
\* of another type it returns the empty string.
C8_Amended ==
    Called("slice") =>
        LET value == args[3]
            s == Max0(args[1])
        IN  /\ value.kind = "string" =>
                  LET n == Len(Runes(value.s))
                      e == Min(args[2], n)
                  IN  /\ s <= e =>
                            /\ ~ret.panicked
                            /\ ret.val.kind = "string"
                            /\ Len(ret.val.s) = e - s
                            /\ \A i \in 1..(e - s) :
                                  ret.val.s[i] = Runes(value.s)[s + i]
                            /\ (s = 0 /\ e = n
                                   /\ \A i \in 1..n : value.s[i] # InvalidByte)
                                  => Returned(value)
                      /\ s > e => Returned(Nil)
            /\ value.kind = "slice" =>
                  IF s <= args[2] /\ args[2] <= Cap(value)
                  THEN /\ ~ret.panicked
                       /\ ret.val.kind = "slice"
                       /\ ret.val.len = args[2] - s
                       /\ \A i \in 1..(args[2] - s) :
                              ret.val.arr[i] = value.arr[s + i]
                       /\ args[2] <= value.len =>
                              Elems(ret.val) = SubSeq(Elems(value), s + 1, args[2])
                  ELSE Returned(Nil)
            /\ value.kind \notin {"string", "slice"} => Returned(Str(<<>>))

\* A slice of two elements and capacity three, sliced to an end of three:
\* the result holds the element beyond the value's length.
C8_Witness ==
    /\ Called("slice")
    /\ args[3].kind = "slice"
    /\ args[3].len = 2
    /\ Cap(args[3]) = 3
    /\ args[1] = 0
    /\ args[2] = 3
    /\ ~ret.panicked
    /\ ret.val.kind = "slice"
    /\ ret.val.len = 3

\* C9: truncatechars(n, s), lengths counted in runes, returns s unchanged
\* when n < 0 or n >= len(s); otherwise the first n-3 runes of s followed by
\* "..." when n > 3 and len(s) > 3; otherwise the first n runes of s.  So
\* for 0 <= n < len(s) the result has exactly n runes, and for n = len(s) it
\* is s.
C9_Truncatechars ==
    Called("truncatechars") =>
        LET n == args[1]
            s == args[2].s
            len == Len(Runes(s))
            r == ret.val.s
        IN  /\ ~ret.panicked
            /\ ret.val.kind = "string"
            /\ (n < 0 \/ n >= len) => r = s
            /\ (0 <= n /\ n < len /\ n > 3 /\ len > 3) =>
                  /\ \A i \in 1..(n - 3) : r[i] = Runes(s)[i]
                  /\ \A i \in (n - 2)..n : r[i] = "."
            /\ (0 <= n /\ n < len /\ ~(n > 3 /\ len > 3)) =>
                  \A i \in 1..n : r[i] = Runes(s)[i]
            /\ (0 <= n /\ n < len) => Len(Runes(r)) = n
            /\ n = len => r = s

\* A string of five runes truncated to four: one rune and the ellipsis.
C9_Witness ==
    /\ Called("truncatechars")
    /\ args[1] = 4
    /\ Len(args[2].s) = 5
    /\ Len(ret.val.s) = 4
    /\ ret.val.s[2] = "."
    /\ ret.val.s[1] = args[2].s[1]

\* The decimal digits of a number with a comma before every group of three
\* digits counted from the right.
RECURSIVE NaiveCommas(_)
NaiveCommas(ds) ==
    IF Len(ds) <= 3 THEN DigitChars(ds)
    ELSE NaiveCommas(SubSeq(ds, 1, Len(ds) - 3))
            \o <<",">> \o DigitChars(SubSeq(ds, Len(ds) - 2, Len(ds)))

\* C10: intcomma of an integer of any kind and width is the digits of its
\* magnitude with a comma every three digits from the right, after a "-"
\* exactly when it is negative; of a value of another kind, the empty string.
C10_IntcommaMatchesNaive ==
    Called("intcomma") =>
        IF argNum = NoNum THEN Returned(Str(<<>>))
        ELSE Returned(Str((IF argNum.neg THEN <<"-">> ELSE <<>>)
                             \o NaiveCommas(argNum.mag)))

\* C10 on a build whose uint has 64 bits, and on any build for the numbers
\* below 2^32 in magnitude: there the statement of C10 holds, the most
\* negative int64 included.
C10_WhereUintHoldsTheMagnitude ==
    (uintSize = 64 \/ argNum = NoNum \/ DLess(argNum.mag, Pow2(32)))
        => C10_IntcommaMatchesNaive

====
